---- MODULE Spec2Model ----
(***************************************************************************)
(* A model of the scell crate: SCell<T>, a reference-counted handle to a   *)
(* shared slot with interior mutability, in its two build-time strategies  *)
(* (checked: Rc<RefCell<T>>, unchecked: Rc<UnsafeCell<T>>).                *)
(*                                                                         *)
(* The same sequence of caller operations is applied to both builds side   *)
(* by side: the handles (Rc pointers) behave identically in both, the      *)
(* slot's value and the views are kept per strategy, and the RefCell       *)
(* borrow flag exists only in the checked build.                           *)
(***************************************************************************)
EXTENDS Integers, FiniteSets, Sequences, TLC

\* ------------------------------------------------------------------ bounds
MaxHandles == 2
MaxViews == 2

\* Every allocated slot has at least one handle: no more slots than handles.
Handles == 1..MaxHandles
Slots == 1..MaxHandles
NoSlot == 0
NoHandle == 0

Strategies == {"checked", "unchecked"}

\* ------------------------------------------------------- the value type T
\* T is generic.  Two instantiations are modelled: "i32" (PartialEq, Eq,
\* PartialOrd, Ord, Hash, Display, Debug) and "f64" (PartialEq, PartialOrd,
\* Display, Debug; its NaN is unequal to and unordered with everything).
Types == {"i32", "f64"}
NaN == -1
ValuesOf(t) == IF t = "f64" THEN {5, NaN} ELSE {5, 7}

\* T's own comparison operators (what `*a == *b`, `*a < *b`, ... evaluate).
ValEq(x, y) == x # NaN /\ y # NaN /\ x = y
ValNe(x, y) == ~ValEq(x, y)
ValPartialCmp(x, y) ==
    IF x = NaN \/ y = NaN THEN "None"
    ELSE IF x < y THEN "Less"
    ELSE IF x > y THEN "Greater"
    ELSE "Equal"
ValLt(x, y) == ValPartialCmp(x, y) = "Less"
ValLe(x, y) == ValPartialCmp(x, y) \in {"Less", "Equal"}
ValGt(x, y) == ValPartialCmp(x, y) = "Greater"
ValGe(x, y) == ValPartialCmp(x, y) \in {"Greater", "Equal"}
ValCmp(x, y) == IF x < y THEN "Less" ELSE IF x > y THEN "Greater" ELSE "Equal"

\* ---------------------------------------------------------------- results
\* The outcome of an operation in one build: a tag and an integer payload.
RUnit == [tag |-> "unit", n |-> 0]
RHash(x) == [tag |-> "hash", n |-> x]
RDisplay(x) == [tag |-> "display", n |-> x]
RDebug(x) == [tag |-> "debug", n |-> x]
RPanic == [tag |-> "panic", n |-> 0]
RAbsent == [tag |-> "absent", n |-> 0]
RView == [tag |-> "view", n |-> 0]
RVal(x) == [tag |-> "val", n |-> x]
RBool(b) == [tag |-> "bool", n |-> IF b THEN 1 ELSE 0]
ROrd(o) ==
    [tag |-> "ord",
     n |-> IF o = "Less" THEN 0 - 1 ELSE IF o = "Greater" THEN 1 ELSE 0]
ROpt(o) == IF o = "None" THEN [tag |-> "none", n |-> 0] ELSE ROrd(o)

VARIABLES
    ty,         \* the instantiation of T
    builds,     \* the strategies compiled and run (side by side when both)
    impl,       \* the impl blocks the forwarded calls resolve to: the strategy
                \* module's own (checked.rs / unchecked.rs) or lib.rs's
    handle,     \* handle[h]: the slot an SCell handle points to, or NoSlot
    strong,     \* strong[s]: the Rc strong count of slot s
    alive,      \* alive[s]: slot s is allocated (its value not yet dropped)
    val,        \* val[st][s]: the value in slot s in build st
    flag,       \* flag[s]: RefCell borrow flag (checked build): 0 unused,
                \*          n > 0 readers, -1 writing
    rd,         \* rd[h]: outstanding Ref views acquired through handle h
    wr,         \* wr[h]: outstanding RefMut views acquired through handle h
    last        \* the most recent operation and its outcome in each build

vars == <<ty, builds, impl, handle, strong, alive, val, flag, rd, wr, last>>

HandlesTo(s) == {h \in Handles : handle[h] = s}

\* Outstanding read / write views on slot s, over all its handles (NoSlot:
\* over all handles).
RECURSIVE Count(_, _, _)
Count(f, s, n) ==
    IF n = 0 THEN 0
    ELSE (IF s = NoSlot \/ handle[n] = s THEN f[n] ELSE 0) + Count(f, s, n - 1)

ReadsOn(s) == Count(rd, s, MaxHandles)
WritesOn(s) == Count(wr, s, MaxHandles)
ViewCount == Count(rd, NoSlot, MaxHandles) + Count(wr, NoSlot, MaxHandles)

Op(o, a, b, res, acq) ==
    [op |-> o, a |-> a, b |-> b, res |-> res, acq |-> acq]

\* The same outcome r in every build that runs.
Both(r) == [st \in Strategies |-> IF st \in builds THEN r ELSE RAbsent]
NoAcq == [st \in Strategies |-> 0]

\* Which of the crate's impl blocks a call resolves to: the strategy module's
\* own (checked.rs / unchecked.rs) or the one in lib.rs.
Impls == {"strategy", "lib"}

InitState ==
    /\ ty \in Types
    /\ impl \in Impls
    /\ handle = [h \in Handles |-> NoSlot]
    /\ strong = [s \in Slots |-> 0]
    /\ alive = [s \in Slots |-> FALSE]
    /\ val = [st \in Strategies |-> [s \in Slots |-> 5]]
    /\ flag = [s \in Slots |-> 0]
    /\ rd = [h \in Handles |-> 0]
    /\ wr = [h \in Handles |-> 0]
    /\ last = Op("init", NoHandle, NoHandle, Both(RUnit), NoAcq)

\* A compiled artifact uses exactly one strategy.
Init ==
    /\ builds \in {{"checked"}, {"unchecked"}}
    /\ InitState

\* Allocation picks the lowest free slot; a new handle takes the lowest
\* free name.
FreeSlot == CHOOSE s \in Slots : ~alive[s] /\ \A s2 \in Slots : ~alive[s2] => s <= s2
FreeHandle ==
    CHOOSE h \in Handles :
        handle[h] = NoSlot /\ \A h2 \in Handles : handle[h2] = NoSlot => h <= h2

\* ------------------------------------------------------------ Rc<...>
\* Rc::new: a fresh allocation with strong count 1.
Rc_new(s) ==
    /\ strong' = [strong EXCEPT ![s] = 1]
    /\ alive' = [alive EXCEPT ![s] = TRUE]

\* Rc::clone: one more strong reference to the same allocation.
Rc_clone(s) ==
    /\ strong' = [strong EXCEPT ![s] = @ + 1]
    /\ alive' = alive

\* Faulty variant: a drop that frees the allocation while other handles are live.
Mut_Rc_drop(s) ==
    /\ strong' = [strong EXCEPT ![s] = @ - 1]
    /\ alive' = [alive EXCEPT ![s] = FALSE]

\* Drop for Rc: one strong reference less; the value is dropped and the
\* allocation freed when the count reaches 0.
Rc_drop(s) ==
    /\ strong' = [strong EXCEPT ![s] = @ - 1]
    /\ alive' = [alive EXCEPT ![s] = (strong[s] - 1 > 0)]

\* ------------------------------------------------------------ RefCell
\* RefCell::borrow succeeds unless the cell is mutably borrowed.
RefCell_borrow_ok(f) == f >= 0

\* RefCell::borrow_mut succeeds only when the cell is not borrowed at all.
RefCell_borrow_mut_ok(f) == f = 0

\* Faulty variant: a Ref whose drop keeps its read claim.
Mut_RefCell_release_read(f) == f

\* Faulty variant: a Ref whose drop declares the cell unused.
Mut_RefCell_release_read_all(f) == 0

\* Drop for cell::Ref: one reader less.
RefCell_release_read(f) == f - 1

\* Drop for cell::RefMut: the cell is unused again.
RefCell_release_write(f) == 0

\* ------------------------------------------------------ SCell::new / from
new(h, s, t) ==
    /\ Rc_new(s)
    /\ handle' = [handle EXCEPT ![h] = s]
    /\ val' = [st \in Strategies |->
                  IF st \in builds THEN [val[st] EXCEPT ![s] = t] ELSE val[st]]
    /\ flag' = [flag EXCEPT ![s] = 0]
    /\ UNCHANGED <<ty, builds, impl, rd, wr>>

New(t) ==
    /\ \E h \in Handles : handle[h] = NoSlot
    /\ new(FreeHandle, FreeSlot, t)
    /\ last' = Op("new", FreeHandle, NoHandle, Both(RVal(t)), NoAcq)

\* Faulty variant: a conversion that wraps T's default instead of its argument.
Mut_from(h, s, t) == new(h, s, 5)

from(h, s, t) == new(h, s, t)

From(t) ==
    /\ \E h \in Handles : handle[h] = NoSlot
    /\ from(FreeHandle, FreeSlot, t)
    /\ last' = Op("from", FreeHandle, NoHandle, Both(RVal(t)), NoAcq)

\* ------------------------------------------------------------- Clone
\* Faulty variant: a clone that copies the value into a slot of its own.
Mut_clone(h, h2) ==
    /\ Rc_new(FreeSlot)
    /\ handle' = [handle EXCEPT ![h2] = FreeSlot]
    /\ val' = [st \in Strategies |->
                  IF st \in builds
                  THEN [val[st] EXCEPT ![FreeSlot] = val[st][handle[h]]]
                  ELSE val[st]]
    /\ UNCHANGED <<ty, builds, impl, flag, rd, wr>>

\* Faulty variant: a clone that first looks at the value through a read view.
Mut_clone_checking(h, h2) ==
    /\ RefCell_borrow_ok(flag[handle[h]])
    /\ Rc_clone(handle[h])
    /\ handle' = [handle EXCEPT ![h2] = handle[h]]
    /\ UNCHANGED <<ty, builds, impl, val, flag, rd, wr>>

clone(h, h2) ==
    /\ Rc_clone(handle[h])
    /\ handle' = [handle EXCEPT ![h2] = handle[h]]
    /\ UNCHANGED <<ty, builds, impl, val, flag, rd, wr>>

Clone(h) ==
    /\ handle[h] # NoSlot
    /\ \E h2 \in Handles : handle[h2] = NoSlot
    /\ clone(h, FreeHandle)
    /\ last' = Op("clone", h, FreeHandle, Both(RUnit), NoAcq)

\* ------------------------------------------------- drop of an SCell handle
\* A Ref / RefMut borrows the handle it was acquired through, so a handle
\* with an outstanding view cannot be dropped.  Freed memory holds no value:
\* the model resets it.
DropHandle(h) ==
    LET s == handle[h]
    IN  /\ s # NoSlot
        /\ rd[h] = 0 /\ wr[h] = 0
        /\ Rc_drop(s)
        /\ handle' = [handle EXCEPT ![h] = NoSlot]
        /\ val' = IF alive'[s] THEN val
                  ELSE [st \in Strategies |-> [val[st] EXCEPT ![s] = 5]]
        /\ UNCHANGED <<ty, builds, impl, flag, rd, wr>>
        /\ last' = Op("drop", h, NoHandle, Both(RUnit), NoAcq)

\* ------------------------------------------------------ borrow / borrow_mut
\* The builds in which an acquisition yields a view (it panics in the
\* others): okC, okU say whether the checked and the unchecked build's
\* borrow / borrow_mut returned.
Acquired(okC, okU) == {st \in builds : IF st = "checked" THEN okC ELSE okU}

AcquireRes(okC, okU) ==
    [st \in Strategies |->
        IF st \notin builds THEN RAbsent
        ELSE IF st \in Acquired(okC, okU) THEN RView ELSE RPanic]

\* Faulty variant: borrow() that hands out a read view whatever the flag says.
Mut_checked_borrow(f) == [ok |-> TRUE, flag |-> f + 1]

\* Faulty variant: borrow() that counts the reader before it checks for a writer.
Mut_checked_borrow_counting(f) ==
    IF RefCell_borrow_ok(f) THEN [ok |-> TRUE, flag |-> f + 1]
    ELSE [ok |-> FALSE, flag |-> f + 1]

\* checked: RefCell::borrow, which panics when a RefMut is outstanding.
checked_borrow(f) ==
    IF RefCell_borrow_ok(f) THEN [ok |-> TRUE, flag |-> f + 1]
    ELSE [ok |-> FALSE, flag |-> f]

\* Faulty variant: borrow_mut() that hands out a write view whatever the flag says.
Mut_checked_borrow_mut(f) == [ok |-> TRUE, flag |-> 0 - 1]

\* checked: RefCell::borrow_mut, which panics when any view is outstanding.
checked_borrow_mut(f) ==
    IF RefCell_borrow_mut_ok(f) THEN [ok |-> TRUE, flag |-> 0 - 1]
    ELSE [ok |-> FALSE, flag |-> f]

\* unchecked: a plain reference to the slot's memory, always, nothing recorded.
unchecked_borrow(f) == [ok |-> TRUE, flag |-> f]

\* Faulty variant: an unchecked borrow_mut that keeps the RefCell's bookkeeping.
Mut_unchecked_borrow_mut(f) ==
    IF f = 0 THEN [ok |-> TRUE, flag |-> 0 - 1] ELSE [ok |-> FALSE, flag |-> f]

unchecked_borrow_mut(f) == [ok |-> TRUE, flag |-> f]

Borrow(h) ==
    LET s == handle[h]
        c == checked_borrow(flag[s])
        u == unchecked_borrow(flag[s])
    IN  /\ s # NoSlot
        /\ ViewCount < MaxViews
        /\ flag' = IF "checked" \in builds THEN [flag EXCEPT ![s] = c.flag]
                   ELSE [flag EXCEPT ![s] = u.flag]
        /\ rd' = IF Acquired(c.ok, u.ok) # {} THEN [rd EXCEPT ![h] = @ + 1] ELSE rd
        /\ last' = Op("borrow", h, NoHandle, AcquireRes(c.ok, u.ok), NoAcq)
        /\ UNCHANGED <<ty, builds, impl, handle, strong, alive, val, wr>>

BorrowMut(h) ==
    LET s == handle[h]
        c == checked_borrow_mut(flag[s])
        u == unchecked_borrow_mut(flag[s])
    IN  /\ s # NoSlot
        /\ ViewCount < MaxViews
        /\ flag' = IF "checked" \in builds THEN [flag EXCEPT ![s] = c.flag]
                   ELSE [flag EXCEPT ![s] = u.flag]
        /\ wr' = IF Acquired(c.ok, u.ok) # {} THEN [wr EXCEPT ![h] = @ + 1] ELSE wr
        /\ last' = Op("borrow_mut", h, NoHandle, AcquireRes(c.ok, u.ok), NoAcq)
        /\ UNCHANGED <<ty, builds, impl, handle, strong, alive, val, rd>>

\* ------------------------------------------------ drop of a Ref / RefMut
\* checked: cell::Ref's drop gives the read claim back.
ReleaseRead(h) ==
    LET s == handle[h]
    IN  /\ rd[h] > 0
        /\ rd' = [rd EXCEPT ![h] = @ - 1]
        /\ flag' = IF "checked" \in builds
                   THEN [flag EXCEPT ![s] = RefCell_release_read(@)] ELSE flag
        /\ last' = Op("release_read", h, NoHandle, Both(RUnit), NoAcq)
        /\ UNCHANGED <<ty, builds, impl, handle, strong, alive, val, wr>>

\* checked: cell::RefMut's drop gives the write claim back.
ReleaseWrite(h) ==
    LET s == handle[h]
    IN  /\ wr[h] > 0
        /\ wr' = [wr EXCEPT ![h] = @ - 1]
        /\ flag' = IF "checked" \in builds
                   THEN [flag EXCEPT ![s] = RefCell_release_write(@)] ELSE flag
        /\ last' = Op("release_write", h, NoHandle, Both(RUnit), NoAcq)
        /\ UNCHANGED <<ty, builds, impl, handle, strong, alive, val, rd>>

\* ------------------------------------------------ Deref / DerefMut of views
\* What a read of slot s can yield in the unchecked build: the stored value,
\* unless the reference read through aliases a RefMut (`others` counts the
\* views that make it so), in which case the read is undefined behaviour.
UReads(s, others) ==
    IF "unchecked" \in builds /\ others > 0 THEN ValuesOf(ty)
    ELSE {val["unchecked"][s]}

ReadRes(s, x) ==
    [st \in Strategies |->
        IF st \notin builds THEN RAbsent
        ELSE IF st = "checked" THEN RVal(val[st][s]) ELSE RVal(x)]

\* Deref for Ref: read the value through a read view acquired on h.
deref(h, x) ==
    /\ last' = Op("deref", h, NoHandle, ReadRes(handle[h], x), NoAcq)
    /\ UNCHANGED <<ty, builds, impl, handle, strong, alive, val, flag, rd, wr>>

Deref(h) ==
    /\ rd[h] > 0
    /\ \E x \in UReads(handle[h], WritesOn(handle[h])) : deref(h, x)

\* Deref for RefMut: read the value through a write view acquired on h.
deref_RefMut(h, x) ==
    /\ last' = Op("deref_RefMut", h, NoHandle, ReadRes(handle[h], x), NoAcq)
    /\ UNCHANGED <<ty, builds, impl, handle, strong, alive, val, flag, rd, wr>>

DerefRefMut(h) ==
    LET s == handle[h]
    IN  /\ wr[h] > 0
        /\ \E x \in UReads(s, WritesOn(s) - 1 + ReadsOn(s)) : deref_RefMut(h, x)

\* DerefMut for RefMut: store t through a write view acquired on h.
deref_mut(h, t) ==
    /\ val' = [st \in Strategies |->
                  IF st \in builds THEN [val[st] EXCEPT ![handle[h]] = t]
                  ELSE val[st]]
    /\ last' = Op("deref_mut", h, NoHandle, Both(RVal(t)), NoAcq)
    /\ UNCHANGED <<ty, builds, impl, handle, strong, alive, flag, rd, wr>>

DerefMut(h, t) ==
    /\ wr[h] > 0
    /\ deref_mut(h, t)

\* ------------------------------------------------- forwarded operations
\* The outcome of a forwarded operation in one build: its result, the number
\* of views it acquired on the way, and the borrow flags it leaves behind.
Fwd(res, acq, f) == [res |-> res, acq |-> acq, flag |-> f]

\* Faulty variant: a comparison whose two views outlive the call.
Mut_checked_borrow2(s1, s2, res) ==
    LET b1 == checked_borrow(flag[s1])
        f1 == [flag EXCEPT ![s1] = b1.flag]
        b2 == checked_borrow(f1[s2])
        f2 == [f1 EXCEPT ![s2] = b2.flag]
    IN  IF ~b1.ok THEN Fwd(RPanic, 0, flag)
        ELSE IF ~b2.ok THEN Fwd(RPanic, 1, f1)
        ELSE Fwd(res, 2, f2)

\* checked: `op(*self.borrow(), *other.borrow())` on slots s1 and s2.  Each
\* borrow() may panic; the temporaries are dropped at the end of the
\* expression, and during unwinding when the second borrow() panics.
checked_borrow2(s1, s2, res) ==
    LET b1 == checked_borrow(flag[s1])
        f1 == [flag EXCEPT ![s1] = b1.flag]
        b2 == checked_borrow(f1[s2])
        f2 == [f1 EXCEPT ![s2] = b2.flag]
    IN  IF ~b1.ok THEN Fwd(RPanic, 0, flag)
        ELSE IF ~b2.ok
        THEN Fwd(RPanic, 1, [f1 EXCEPT ![s1] = RefCell_release_read(@)])
        ELSE Fwd(res, 2,
                 [[f2 EXCEPT ![s2] = RefCell_release_read(@)]
                     EXCEPT ![s1] = RefCell_release_read(@)])

\* Faulty variant: a forwarded call that reads the value without a view.
Mut_checked_borrow1(s, res) == Fwd(res, 0, flag)

\* checked: `op(self.borrow())` on slot s.
checked_borrow1(s, res) ==
    LET b1 == checked_borrow(flag[s])
        f1 == [flag EXCEPT ![s] = b1.flag]
    IN  IF ~b1.ok THEN Fwd(RPanic, 0, flag)
        ELSE Fwd(res, 1, [f1 EXCEPT ![s] = RefCell_release_read(@)])

CVal(h) == val["checked"][handle[h]]

\* Faulty variant: an eq that compares the pointers only.
Mut_checked_eq(h1, h2) == Fwd(RBool(handle[h1] = handle[h2]), 0, flag)

\* checked.rs eq: equal pointers short-circuit, else compare through views.
checked_eq(h1, h2) ==
    IF handle[h1] = handle[h2] THEN Fwd(RBool(TRUE), 0, flag)
    ELSE checked_borrow2(handle[h1], handle[h2], RBool(ValEq(CVal(h1), CVal(h2))))

\* unchecked.rs eq: compare through two plain references (x, y: the values
\* read through them).
unchecked_eq(x, y) == Fwd(RBool(ValEq(x, y)), 2, flag)

\* lib.rs eq: compare through views of the build's strategy.
lib_eq(st, h1, h2, x, y) ==
    IF st = "checked"
    THEN checked_borrow2(handle[h1], handle[h2], RBool(ValEq(CVal(h1), CVal(h2))))
    ELSE Fwd(RBool(ValEq(x, y)), 2, flag)

\* Faulty variant: a ne that takes its two views before it looks at the pointers.
Mut_checked_ne_borrowing(h1, h2) ==
    checked_borrow2(handle[h1], handle[h2],
                    RBool(handle[h1] # handle[h2] /\ ValNe(CVal(h1), CVal(h2))))

\* checked.rs ne: equal pointers short-circuit, else compare through views.
checked_ne(h1, h2) ==
    IF handle[h1] = handle[h2] THEN Fwd(RBool(FALSE), 0, flag)
    ELSE checked_borrow2(handle[h1], handle[h2], RBool(ValNe(CVal(h1), CVal(h2))))

\* unchecked.rs ne: compare through two plain references (x, y: the values
\* read through them).
unchecked_ne(x, y) == Fwd(RBool(ValNe(x, y)), 2, flag)

\* lib.rs ne: compare through views of the build's strategy.
lib_ne(st, h1, h2, x, y) ==
    IF st = "checked"
    THEN checked_borrow2(handle[h1], handle[h2], RBool(ValNe(CVal(h1), CVal(h2))))
    ELSE Fwd(RBool(ValNe(x, y)), 2, flag)

\* checked.rs partial_cmp: equal pointers short-circuit, else compare through views.
checked_partial_cmp(h1, h2) ==
    IF handle[h1] = handle[h2] THEN Fwd(ROpt("Equal"), 0, flag)
    ELSE checked_borrow2(handle[h1], handle[h2], ROpt(ValPartialCmp(CVal(h1), CVal(h2))))

\* unchecked.rs partial_cmp: compare through two plain references (x, y: the values
\* read through them).
unchecked_partial_cmp(x, y) == Fwd(ROpt(ValPartialCmp(x, y)), 2, flag)

\* lib.rs partial_cmp: compare through views of the build's strategy.
lib_partial_cmp(st, h1, h2, x, y) ==
    IF st = "checked"
    THEN checked_borrow2(handle[h1], handle[h2], ROpt(ValPartialCmp(CVal(h1), CVal(h2))))
    ELSE Fwd(ROpt(ValPartialCmp(x, y)), 2, flag)

\* checked.rs lt: equal pointers short-circuit, else compare through views.
checked_lt(h1, h2) ==
    IF handle[h1] = handle[h2] THEN Fwd(RBool(FALSE), 0, flag)
    ELSE checked_borrow2(handle[h1], handle[h2], RBool(ValLt(CVal(h1), CVal(h2))))

\* unchecked.rs lt: compare through two plain references (x, y: the values
\* read through them).
unchecked_lt(x, y) == Fwd(RBool(ValLt(x, y)), 2, flag)

\* lib.rs lt: compare through views of the build's strategy.
lib_lt(st, h1, h2, x, y) ==
    IF st = "checked"
    THEN checked_borrow2(handle[h1], handle[h2], RBool(ValLt(CVal(h1), CVal(h2))))
    ELSE Fwd(RBool(ValLt(x, y)), 2, flag)

\* checked.rs le: equal pointers short-circuit, else compare through views.
checked_le(h1, h2) ==
    IF handle[h1] = handle[h2] THEN Fwd(RBool(TRUE), 0, flag)
    ELSE checked_borrow2(handle[h1], handle[h2], RBool(ValLe(CVal(h1), CVal(h2))))

\* unchecked.rs le: compare through two plain references (x, y: the values
\* read through them).
unchecked_le(x, y) == Fwd(RBool(ValLe(x, y)), 2, flag)

\* lib.rs le: compare through views of the build's strategy.
lib_le(st, h1, h2, x, y) ==
    IF st = "checked"
    THEN checked_borrow2(handle[h1], handle[h2], RBool(ValLe(CVal(h1), CVal(h2))))
    ELSE Fwd(RBool(ValLe(x, y)), 2, flag)

\* checked.rs gt: equal pointers short-circuit, else compare through views.
checked_gt(h1, h2) ==
    IF handle[h1] = handle[h2] THEN Fwd(RBool(FALSE), 0, flag)
    ELSE checked_borrow2(handle[h1], handle[h2], RBool(ValGt(CVal(h1), CVal(h2))))

\* unchecked.rs gt: compare through two plain references (x, y: the values
\* read through them).
unchecked_gt(x, y) == Fwd(RBool(ValGt(x, y)), 2, flag)

\* lib.rs gt: compare through views of the build's strategy.
lib_gt(st, h1, h2, x, y) ==
    IF st = "checked"
    THEN checked_borrow2(handle[h1], handle[h2], RBool(ValGt(CVal(h1), CVal(h2))))
    ELSE Fwd(RBool(ValGt(x, y)), 2, flag)

\* checked.rs ge: equal pointers short-circuit, else compare through views.
checked_ge(h1, h2) ==
    IF handle[h1] = handle[h2] THEN Fwd(RBool(TRUE), 0, flag)
    ELSE checked_borrow2(handle[h1], handle[h2], RBool(ValGe(CVal(h1), CVal(h2))))

\* unchecked.rs ge: compare through two plain references (x, y: the values
\* read through them).
unchecked_ge(x, y) == Fwd(RBool(ValGe(x, y)), 2, flag)

\* lib.rs ge: compare through views of the build's strategy.
lib_ge(st, h1, h2, x, y) ==
    IF st = "checked"
    THEN checked_borrow2(handle[h1], handle[h2], RBool(ValGe(CVal(h1), CVal(h2))))
    ELSE Fwd(RBool(ValGe(x, y)), 2, flag)

\* checked.rs cmp: equal pointers short-circuit, else compare through views.
checked_cmp(h1, h2) ==
    IF handle[h1] = handle[h2] THEN Fwd(ROrd("Equal"), 0, flag)
    ELSE checked_borrow2(handle[h1], handle[h2], ROrd(ValCmp(CVal(h1), CVal(h2))))

\* unchecked.rs cmp: compare through two plain references (x, y: the values
\* read through them).
unchecked_cmp(x, y) == Fwd(ROrd(ValCmp(x, y)), 2, flag)

\* lib.rs cmp: compare through views of the build's strategy.
lib_cmp(st, h1, h2, x, y) ==
    IF st = "checked"
    THEN checked_borrow2(handle[h1], handle[h2], ROrd(ValCmp(CVal(h1), CVal(h2))))
    ELSE Fwd(ROrd(ValCmp(x, y)), 2, flag)

\* lib.rs hash / Display / Debug: forward to T through one read view.
lib_hash(st, h, x) ==
    IF st = "checked" THEN checked_borrow1(handle[h], RHash(CVal(h)))
    ELSE Fwd(RHash(x), 1, flag)

lib_fmt_Display(st, h, x) ==
    IF st = "checked" THEN checked_borrow1(handle[h], RDisplay(CVal(h)))
    ELSE Fwd(RDisplay(x), 1, flag)

lib_fmt_Debug(st, h, x) ==
    IF st = "checked" THEN checked_borrow1(handle[h], RDebug(CVal(h)))
    ELSE Fwd(RDebug(x), 1, flag)

\* unchecked.rs hash / Display / Debug: the same through a plain reference.
unchecked_hash(x) == Fwd(RHash(x), 1, flag)

unchecked_fmt_Display(x) == Fwd(RDisplay(x), 1, flag)

unchecked_fmt_Debug(x) == Fwd(RDebug(x), 1, flag)

\* A forwarded call with outcome c in the checked and u in the unchecked build.
Forward(o, h1, h2, c, u) ==
    /\ flag' = IF "checked" \in builds THEN c.flag ELSE u.flag
    /\ last' = Op(o, h1, h2,
                  [st \in Strategies |->
                      IF st \notin builds THEN RAbsent
                      ELSE IF st = "checked" THEN c.res ELSE u.res],
                  [st \in Strategies |->
                      IF st \notin builds THEN 0
                      ELSE IF st = "checked" THEN c.acq ELSE u.acq])
    /\ UNCHANGED <<ty, builds, impl, handle, strong, alive, val, rd, wr>>

\* A read inside a forwarded call of the unchecked build.
FwdReads(h) == UReads(handle[h], WritesOn(handle[h]))

Eq(h1, h2) ==
    /\ handle[h1] # NoSlot /\ handle[h2] # NoSlot
    /\ \E x \in FwdReads(h1), y \in FwdReads(h2) :
        Forward("eq", h1, h2,
                IF impl = "lib" THEN lib_eq("checked", h1, h2, x, y)
                ELSE checked_eq(h1, h2),
                IF impl = "lib" THEN lib_eq("unchecked", h1, h2, x, y)
                ELSE unchecked_eq(x, y))

Ne(h1, h2) ==
    /\ handle[h1] # NoSlot /\ handle[h2] # NoSlot
    /\ \E x \in FwdReads(h1), y \in FwdReads(h2) :
        Forward("ne", h1, h2,
                IF impl = "lib" THEN lib_ne("checked", h1, h2, x, y)
                ELSE checked_ne(h1, h2),
                IF impl = "lib" THEN lib_ne("unchecked", h1, h2, x, y)
                ELSE unchecked_ne(x, y))

PartialCmp(h1, h2) ==
    /\ handle[h1] # NoSlot /\ handle[h2] # NoSlot
    /\ \E x \in FwdReads(h1), y \in FwdReads(h2) :
        Forward("partial_cmp", h1, h2,
                IF impl = "lib" THEN lib_partial_cmp("checked", h1, h2, x, y)
                ELSE checked_partial_cmp(h1, h2),
                IF impl = "lib" THEN lib_partial_cmp("unchecked", h1, h2, x, y)
                ELSE unchecked_partial_cmp(x, y))

Lt(h1, h2) ==
    /\ handle[h1] # NoSlot /\ handle[h2] # NoSlot
    /\ \E x \in FwdReads(h1), y \in FwdReads(h2) :
        Forward("lt", h1, h2,
                IF impl = "lib" THEN lib_lt("checked", h1, h2, x, y)
                ELSE checked_lt(h1, h2),
                IF impl = "lib" THEN lib_lt("unchecked", h1, h2, x, y)
                ELSE unchecked_lt(x, y))

Le(h1, h2) ==
    /\ handle[h1] # NoSlot /\ handle[h2] # NoSlot
    /\ \E x \in FwdReads(h1), y \in FwdReads(h2) :
        Forward("le", h1, h2,
                IF impl = "lib" THEN lib_le("checked", h1, h2, x, y)
                ELSE checked_le(h1, h2),
                IF impl = "lib" THEN lib_le("unchecked", h1, h2, x, y)
                ELSE unchecked_le(x, y))

Gt(h1, h2) ==
    /\ handle[h1] # NoSlot /\ handle[h2] # NoSlot
    /\ \E x \in FwdReads(h1), y \in FwdReads(h2) :
        Forward("gt", h1, h2,
                IF impl = "lib" THEN lib_gt("checked", h1, h2, x, y)
                ELSE checked_gt(h1, h2),
                IF impl = "lib" THEN lib_gt("unchecked", h1, h2, x, y)
                ELSE unchecked_gt(x, y))

Ge(h1, h2) ==
    /\ handle[h1] # NoSlot /\ handle[h2] # NoSlot
    /\ \E x \in FwdReads(h1), y \in FwdReads(h2) :
        Forward("ge", h1, h2,
                IF impl = "lib" THEN lib_ge("checked", h1, h2, x, y)
                ELSE checked_ge(h1, h2),
                IF impl = "lib" THEN lib_ge("unchecked", h1, h2, x, y)
                ELSE unchecked_ge(x, y))

Cmp(h1, h2) ==
    /\ handle[h1] # NoSlot /\ handle[h2] # NoSlot
    /\ ty = "i32"
    /\ \E x \in FwdReads(h1), y \in FwdReads(h2) :
        Forward("cmp", h1, h2,
                IF impl = "lib" THEN lib_cmp("checked", h1, h2, x, y)
                ELSE checked_cmp(h1, h2),
                IF impl = "lib" THEN lib_cmp("unchecked", h1, h2, x, y)
                ELSE unchecked_cmp(x, y))

\* checked.rs has no impl of its own: the checked build uses lib.rs's.
Hash(h) ==
    /\ handle[h] # NoSlot
    /\ ty = "i32"
    /\ \E x \in FwdReads(h) :
        Forward("hash", h, NoHandle,
                lib_hash("checked", h, x),
                IF impl = "lib" THEN lib_hash("unchecked", h, x)
                ELSE unchecked_hash(x))

\* checked.rs has no impl of its own: the checked build uses lib.rs's.
Display(h) ==
    /\ handle[h] # NoSlot
    /\ \E x \in FwdReads(h) :
        Forward("fmt_Display", h, NoHandle,
                lib_fmt_Display("checked", h, x),
                IF impl = "lib" THEN lib_fmt_Display("unchecked", h, x)
                ELSE unchecked_fmt_Display(x))

\* checked.rs has no impl of its own: the checked build uses lib.rs's.
Debug(h) ==
    /\ handle[h] # NoSlot
    /\ \E x \in FwdReads(h) :
        Forward("fmt_Debug", h, NoHandle,
                lib_fmt_Debug("checked", h, x),
                IF impl = "lib" THEN lib_fmt_Debug("unchecked", h, x)
                ELSE unchecked_fmt_Debug(x))

ForwardedOps ==
    {"eq", "ne", "partial_cmp", "lt", "le", "gt", "ge", "cmp",
     "hash", "fmt_Display", "fmt_Debug"}

\* The handle and view operations.
Core ==
    \/ \E t \in ValuesOf(ty) : New(t)
    \/ \E t \in ValuesOf(ty) : From(t)
    \/ \E h \in Handles : Clone(h)
    \/ \E h \in Handles : DropHandle(h)
    \/ \E h \in Handles : Borrow(h)
    \/ \E h \in Handles : BorrowMut(h)
    \/ \E h \in Handles : ReleaseRead(h)
    \/ \E h \in Handles : ReleaseWrite(h)
    \/ \E h \in Handles : Deref(h)
    \/ \E h \in Handles : DerefRefMut(h)
    \/ \E h \in Handles, t \in ValuesOf(ty) : DerefMut(h, t)

\* The forwarded operations.
Forwarded ==
    \/ \E h1, h2 \in Handles : Eq(h1, h2)
    \/ \E h1, h2 \in Handles : Ne(h1, h2)
    \/ \E h1, h2 \in Handles : PartialCmp(h1, h2)
    \/ \E h1, h2 \in Handles : Lt(h1, h2)
    \/ \E h1, h2 \in Handles : Le(h1, h2)
    \/ \E h1, h2 \in Handles : Gt(h1, h2)
    \/ \E h1, h2 \in Handles : Ge(h1, h2)
    \/ \E h1, h2 \in Handles : Cmp(h1, h2)
    \/ \E h \in Handles : Hash(h)
    \/ \E h \in Handles : Display(h)
    \/ \E h \in Handles : Debug(h)

\* Spec: the handle and view operations of one build.
Next == Core

Spec == Init /\ [][Next]_vars

\* SpecFwd: all operations of one build.
NextFwd == Core \/ Forwarded

SpecFwd == Init /\ [][NextFwd]_vars

\* SpecPair: the two builds run side by side on the same operations of a
\* caller that keeps to the discipline: no view (the caller's own, or one a
\* forwarded call takes) overlaps a write view on the same slot.
Disciplined ==
    /\ \A s \in Slots :
          WritesOn(s) <= 1 /\ (WritesOn(s) = 1 => ReadsOn(s) = 0)
    /\ last.op \in ForwardedOps =>
          /\ WritesOn(handle[last.a]) = 0
          /\ last.b # NoHandle => WritesOn(handle[last.b]) = 0

InitPair ==
    /\ builds = Strategies
    /\ InitState

NextPair ==
    \/ (\E t \in ValuesOf(ty) : New(t)) /\ Disciplined'
    \/ (\E t \in ValuesOf(ty) : From(t)) /\ Disciplined'
    \/ (\E h \in Handles : Clone(h)) /\ Disciplined'
    \/ (\E h \in Handles : DropHandle(h)) /\ Disciplined'
    \/ (\E h \in Handles : Borrow(h)) /\ Disciplined'
    \/ (\E h \in Handles : BorrowMut(h)) /\ Disciplined'
    \/ (\E h \in Handles : ReleaseRead(h)) /\ Disciplined'
    \/ (\E h \in Handles : ReleaseWrite(h)) /\ Disciplined'
    \/ (\E h \in Handles : Deref(h)) /\ Disciplined'
    \/ (\E h \in Handles : DerefRefMut(h)) /\ Disciplined'
    \/ (\E h \in Handles, t \in ValuesOf(ty) : DerefMut(h, t)) /\ Disciplined'
    \/ Forwarded /\ Disciplined'

SpecPair == InitPair /\ [][NextPair]_vars

\* ------------------------------------------- a panic leaving the scopes
\* A panic raised by borrow() / borrow_mut() (directly or inside a forwarded
\* call) unwinds the caller's frames up to the place it is caught.  The
\* locals of every frame it leaves are dropped on the way, the Ref / RefMut
\* views among them by the drop glue that runs at a normal end of scope
\* (ReleaseRead / ReleaseWrite stand for the return and the early exit).
Unwinding ==
    \/ last.res["checked"] = RPanic
    \/ last.op \in {"unwind_read", "unwind_write"}

\* Faulty variant: a Ref left behind by unwinding keeps its read claim.
Mut_Ref_drop_unwinding(f) == f

\* Ref has no Drop of its own: its field, a cell::Ref, is dropped.
Ref_drop_unwinding(f) == RefCell_release_read(f)

\* RefMut has no Drop of its own: its field, a cell::RefMut, is dropped.
RefMut_drop_unwinding(f) == RefCell_release_write(f)

UnwindRead(h) ==
    LET s == handle[h]
    IN  /\ Unwinding
        /\ rd[h] > 0
        /\ rd' = [rd EXCEPT ![h] = @ - 1]
        /\ flag' = [flag EXCEPT ![s] = Ref_drop_unwinding(@)]
        /\ last' = Op("unwind_read", h, NoHandle, Both(RUnit), NoAcq)
        /\ UNCHANGED <<ty, builds, impl, handle, strong, alive, val, wr>>

UnwindWrite(h) ==
    LET s == handle[h]
    IN  /\ Unwinding
        /\ wr[h] > 0
        /\ wr' = [wr EXCEPT ![h] = @ - 1]
        /\ flag' = [flag EXCEPT ![s] = RefMut_drop_unwinding(@)]
        /\ last' = Op("unwind_write", h, NoHandle, Both(RUnit), NoAcq)
        /\ UNCHANGED <<ty, builds, impl, handle, strong, alive, val, rd>>

Unwind ==
    \/ \E h \in Handles : UnwindRead(h)
    \/ \E h \in Handles : UnwindWrite(h)

\* SpecChecked: all operations of the checked build, and its panics unwinding
\* through the scopes that hold views.
InitChecked ==
    /\ builds = {"checked"}
    /\ InitState

NextChecked == Core \/ Forwarded \/ Unwind

SpecChecked == InitChecked /\ [][NextChecked]_vars

\* SpecUnchecked: all operations of the unchecked build.
InitUnchecked ==
    /\ builds = {"unchecked"}
    /\ InitState

NextUnchecked == Core \/ Forwarded

SpecUnchecked == InitUnchecked /\ [][NextUnchecked]_vars


\* ------------------------------------------------------------ the claims
Checked == "checked" \in builds
Panicked(st) == last.res[st] = RPanic
ViewsOnSlot(s) == ReadsOn(s) + WritesOn(s)

\* C1: in the checked build every slot has, at every moment, no view, or one
\* or more read views and no write view, or exactly one write view and no
\* read view, counted over all handles of the slot.
C1_SharedXorExclusive ==
    Checked =>
        \A s \in Slots :
            \/ ViewsOnSlot(s) = 0
            \/ ReadsOn(s) >= 1 /\ WritesOn(s) = 0
            \/ WritesOn(s) = 1 /\ ReadsOn(s) = 0

\* A write was refused through one handle while a read view taken through
\* another handle of the same slot was outstanding.
C1_Witness ==
    /\ Checked
    /\ last.op = "borrow_mut" /\ Panicked("checked")
    /\ \E h \in Handles :
        h # last.a /\ handle[h] = handle[last.a] /\ rd[h] = 1 /\ rd[last.a] = 0

\* C2: in the checked build borrow_mut panics whenever a view of either kind
\* is outstanding on the slot and succeeds (Unborrowed -> Exclusive) only
\* when none is; borrow panics whenever a write view is outstanding and
\* succeeds otherwise, SharedRead(n) becoming SharedRead(n+1).
C2_AcquireTable ==
    [][Checked =>
        LET h == last'.a
            s == handle[h]
        IN  /\ last'.op = "borrow_mut" =>
                IF ViewsOnSlot(s) > 0
                THEN last'.res["checked"] = RPanic /\ flag' = flag /\ wr' = wr
                ELSE /\ last'.res["checked"] = RView
                     /\ flag[s] = 0 /\ flag'[s] = 0 - 1
                     /\ wr'[h] = wr[h] + 1
            /\ last'.op = "borrow" =>
                IF WritesOn(s) > 0
                THEN last'.res["checked"] = RPanic /\ flag' = flag /\ rd' = rd
                ELSE /\ last'.res["checked"] = RView
                     /\ flag[s] = ReadsOn(s) /\ flag'[s] = flag[s] + 1
                     /\ rd'[h] = rd[h] + 1]_vars

\* A second read view was acquired: SharedRead(1) became SharedRead(2).
C2_Witness ==
    /\ Checked
    /\ last.op = "borrow" /\ last.res["checked"] = RView
    /\ flag[handle[last.a]] = 2

\* C3: in the checked build a slot with no outstanding view is Unborrowed
\* (also after a refused acquisition), and a borrow or borrow_mut on such a
\* slot, through whichever handle, succeeds.
C3_ReleasedMeansUnborrowed ==
    [][Checked =>
        /\ \A s \in Slots :
              alive'[s] /\ (ViewsOnSlot(s))' = 0 => flag'[s] = 0
        /\ /\ last'.op \in {"borrow", "borrow_mut"}
           /\ ViewsOnSlot(handle[last'.a]) = 0
           => last'.res["checked"] = RView]_vars

\* The last view on a slot with two handles was released, and the slot is
\* Unborrowed again.
C3_Witness ==
    /\ Checked
    /\ last.op \in {"release_read", "release_write"}
    /\ ViewsOnSlot(handle[last.a]) = 0
    /\ flag[handle[last.a]] = 0
    /\ \E h \in Handles : h # last.a /\ handle[h] = handle[last.a]

\* C4: clone yields a handle to the same slot: after a clone both handles
\* name one slot, a value stored through a write view taken on one handle is
\* the value of the slot of every handle cloned from it, and a read view on
\* any of them (no write view outstanding) yields that slot's value.
C4_CloneSharesSlot ==
    \A st \in builds :
        /\ last.op = "clone" =>
              /\ handle[last.b] = handle[last.a]
              /\ handle[last.a] # NoSlot
        /\ last.op = "deref_mut" =>
              \A h2 \in HandlesTo(handle[last.a]) :
                  val[st][handle[h2]] = last.res[st].n
        /\ last.op = "deref" /\ WritesOn(handle[last.a]) = 0 =>
              \A h2 \in HandlesTo(handle[last.a]) :
                  last.res[st] = RVal(val[st][handle[h2]])

\* 7 was stored through a write view on one handle and is now the value of
\* the slot the other handle names.
C4_Witness ==
    /\ last.op = "deref_mut"
    /\ \E h2 \in Handles :
        /\ h2 # last.a
        /\ handle[h2] = handle[last.a]
        /\ \A st \in builds : val[st][handle[h2]] = 7

\* C6: a slot's reference count equals the number of live handles to it, and
\* the slot is allocated exactly while that number is not 0.
C6_CountIsHandles ==
    \A s \in Slots :
        /\ strong[s] = Cardinality(HandlesTo(s))
        /\ alive[s] <=> strong[s] > 0
        /\ alive[s] <=> HandlesTo(s) # {}

\* A handle was dropped and the slot of the handles still live survives,
\* while the other slot is gone.
C6_Witness ==
    /\ last.op = "drop"
    /\ \E s \in Slots : alive[s] /\ strong[s] = 1
    /\ \E s \in Slots : ~alive[s] /\ strong[s] = 0

\* C5: only a store through a write view changes a slot's value: new and
\* from store their argument, every other operation (clone, drop, borrow,
\* release, comparison, hash, formatting, reads) leaves the value of every
\* slot as it was, and a read view yields the slot's value.
C5_OnlyWritesChangeValue ==
    [][\A st \in builds :
        /\ \A s \in Slots :
              alive[s] /\ alive'[s] /\ val'[st][s] # val[st][s]
              => last'.op = "deref_mut" /\ handle[last'.a] = s
        /\ last'.op \in {"new", "from"} =>
              /\ last'.res[st] \in {RVal(t) : t \in ValuesOf(ty)}
              /\ val'[st][handle'[last'.a]] = last'.res[st].n
        /\ last'.op = "deref" /\ WritesOn(handle[last'.a]) = 0 =>
              last'.res[st] = RVal(val[st][handle[last'.a]])]_vars

\* A forwarded operation ran on a slot that was created holding 7 or NaN and
\* has a read view outstanding.
C5_Witness ==
    /\ last.op \in ForwardedOps
    /\ rd[last.a] = 1
    /\ \A st \in builds : val[st][handle[last.a]] # 5

SameSlot == handle[last.a] = handle[last.b]

\* What T's own operator o gives for the values x and y.
FullCompare(o, x, y) ==
    CASE o = "eq" -> RBool(ValEq(x, y))
      [] o = "ne" -> RBool(ValNe(x, y))
      [] o = "partial_cmp" -> ROpt(ValPartialCmp(x, y))
      [] o = "cmp" -> ROrd(ValCmp(x, y))

\* C7: in both strategies (the impl blocks of checked.rs and unchecked.rs) eq
\* of two handles to the same slot is true and ne is false, and neither
\* acquires a view on the slot.
C7_SameSlotShortCircuit ==
    \A st \in builds :
        /\ impl = "strategy" /\ last.op = "eq" /\ SameSlot =>
              last.res[st] = RBool(TRUE) /\ last.acq[st] = 0
        /\ impl = "strategy" /\ last.op = "ne" /\ SameSlot =>
              last.res[st] = RBool(FALSE) /\ last.acq[st] = 0

\* C8: what eq, ne, partial_cmp and cmp give for two handles to the same slot
\* through the short-circuit is what comparing the slot's value with itself
\* gives.
C8_ShortCircuitAgreesWithValue ==
    \A st \in builds :
        /\ last.op \in {"eq", "ne", "partial_cmp", "cmp"}
        /\ SameSlot
        /\ last.acq[st] = 0
        => LET x == val[st][handle[last.a]]
           IN  last.res[st] = FullCompare(last.op, x, x)

\* C9: for handles to distinct slots with no write view outstanding on
\* either, eq is the comparison of the two values and ne its negation, in
\* both strategies.
C9_DistinctSlotsCompareValues ==
    \A st \in builds :
        /\ last.op \in {"eq", "ne"}
        /\ ~SameSlot
        /\ WritesOn(handle[last.a]) = 0
        /\ WritesOn(handle[last.b]) = 0
        => LET x == val[st][handle[last.a]]
               y == val[st][handle[last.b]]
           IN  IF last.op = "eq"
               THEN last.res[st] = RBool(ValEq(x, y))
               ELSE last.res[st] = RBool(~ValEq(x, y))

\* eq of two handles to distinct slots that hold equal values was true, with
\* a read view outstanding on one of them.
C9_Witness ==
    /\ last.op = "eq"
    /\ ~SameSlot
    /\ rd[last.a] = 1
    /\ val["checked"][handle[last.a]] = 7
    /\ \A st \in builds : last.res[st] = RBool(TRUE)

\* C10: for a caller that keeps to the discipline the two builds give the
\* same result at every step.
C10_BuildsAgree ==
    builds = Strategies => last.res["checked"] = last.res["unchecked"]

\* What the views outstanding on slot s claim of its RefCell: writing for a
\* write view, else the number of read views.
Claimed(s) == IF WritesOn(s) > 0 THEN 0 - 1 ELSE ReadsOn(s)

\* C11: in the checked build the end of a view's scope, by return or early
\* exit (release) and by a panic unwinding through the scope (unwind), gives
\* the view's claim back: a read view's end takes one off the read count, a
\* write view's end clears the exclusive flag, and after every step, the
\* panicking ones included, each slot's flag claims exactly the views still
\* in scope.
C11_ScopeEndReleases ==
    [][Checked =>
        LET h == last'.a
            s == handle[h]
        IN  /\ last'.op \in {"release_read", "unwind_read"} =>
                rd'[h] = rd[h] - 1 /\ flag'[s] = flag[s] - 1
            /\ last'.op \in {"release_write", "unwind_write"} =>
                wr'[h] = wr[h] - 1 /\ flag'[s] = 0
            /\ \A s2 \in Slots : alive'[s2] => flag'[s2] = (Claimed(s2))']_vars

\* A borrow_mut nested in the scope of a read view panicked, the panic left
\* that scope, and the slot is Unborrowed.
C11_Witness ==
    /\ Checked
    /\ last.op = "unwind_read"
    /\ ViewsOnSlot(handle[last.a]) = 0
    /\ flag[handle[last.a]] = 0

\* C12: clone of a live handle is possible in every aliasing state of its
\* slot (Unborrowed, SharedRead(n), Exclusive), in both strategies, and it
\* leaves the aliasing state, the outstanding views and the values as they
\* were: only the reference count of the handle's slot changes, by +1.
C12_CloneOnlyCounts ==
    [][/\ \A h \in Handles :
            handle[h] # NoSlot /\ (\E h2 \in Handles : handle[h2] = NoSlot)
            => ENABLED Clone(h)
       /\ last'.op = "clone" =>
            /\ flag' = flag /\ rd' = rd /\ wr' = wr /\ val' = val
            /\ alive' = alive
            /\ strong' = [strong EXCEPT ![handle[last'.a]] = @ + 1]
            /\ last'.res = Both(RUnit)]_vars

\* A handle was cloned while a write view taken through it was outstanding
\* (Exclusive), and the view is still there.
C12_Witness ==
    /\ Checked
    /\ last.op = "clone"
    /\ flag[handle[last.a]] = 0 - 1
    /\ wr[last.a] = 1
    /\ strong[handle[last.a]] = 2

Unchecked == "unchecked" \in builds

\* C13: in the unchecked build borrow and borrow_mut are possible on every
\* live handle and return a view whatever views are outstanding on the slot;
\* no step records aliasing state, and no operation, the forwarded ones
\* included, ends in a failure.
C13_UncheckedNeverFails ==
    [][Unchecked =>
        /\ \A h \in Handles :
              handle[h] # NoSlot /\ ViewCount < MaxViews
              => ENABLED Borrow(h) /\ ENABLED BorrowMut(h)
        /\ last'.res["unchecked"] # RPanic
        /\ flag' = flag
        /\ last'.op = "borrow" =>
              /\ last'.res["unchecked"] = RView
              /\ rd'[last'.a] = rd[last'.a] + 1
        /\ last'.op = "borrow_mut" =>
              /\ last'.res["unchecked"] = RView
              /\ wr'[last'.a] = wr[last'.a] + 1]_vars

\* A second write view was handed out on a slot whose first write view is
\* still outstanding.
C13_Witness ==
    /\ Unchecked
    /\ last.op = "borrow_mut"
    /\ last.res["unchecked"] = RView
    /\ WritesOn(handle[last.a]) = 2

\* C14: in the checked build a borrow or borrow_mut that panics, called
\* directly or inside a forwarded operation, leaves every slot's aliasing
\* state, value and reference count and every outstanding view as they were
\* before the call.
C14_FailedAcquireChangesNothing ==
    [][Checked /\ last'.res["checked"] = RPanic =>
        /\ last'.op \in {"borrow", "borrow_mut"} \cup ForwardedOps
        /\ flag' = flag
        /\ val' = val
        /\ strong' = strong /\ alive' = alive /\ handle' = handle
        /\ rd' = rd /\ wr' = wr]_vars

\* borrow panicked on a slot whose write view, taken through the other
\* handle, is still outstanding.
C14_Witness ==
    /\ Checked
    /\ last.op = "borrow"
    /\ Panicked("checked")
    /\ flag[handle[last.a]] = 0 - 1
    /\ \E h \in Handles : h # last.a /\ handle[h] = handle[last.a] /\ wr[h] = 1

\* C15: in the checked build the read count of a slot that is not Exclusive
\* is the number of read views outstanding on it over all its handles; the
\* end of one read view takes SharedRead(n) to SharedRead(n-1), which is
\* Unborrowed for n = 1; and borrow_mut is granted only when no read view is
\* left, and panics while one is.
C15_ReadCountIsReadViews ==
    [][Checked =>
        LET s == handle[last'.a]
        IN  /\ \A s2 \in Slots :
                  alive'[s2] /\ flag'[s2] >= 0 => flag'[s2] = (ReadsOn(s2))'
            /\ last'.op = "release_read" =>
                  /\ flag[s] >= 1 /\ flag[s] = ReadsOn(s)
                  /\ flag'[s] = flag[s] - 1
                  /\ rd' = [rd EXCEPT ![last'.a] = @ - 1]
            /\ last'.op = "borrow_mut" =>
                  IF ReadsOn(s) > 0 THEN last'.res["checked"] = RPanic
                  ELSE last'.res["checked"] = RView => flag[s] = 0]_vars

\* One of two read views, taken through different handles of a slot, was
\* released: the slot is SharedRead(1), not yet Unborrowed.
C15_Witness ==
    /\ Checked
    /\ last.op = "release_read"
    /\ flag[handle[last.a]] = 1
    /\ rd[last.a] = 0
    /\ \E h \in Handles : h # last.a /\ handle[h] = handle[last.a] /\ rd[h] = 1

OrderingOps == {"partial_cmp", "cmp", "lt", "le", "gt", "ge"}

\* What the ordering operation o gives for a thing compared with itself.
NoDifference(o) ==
    CASE o = "partial_cmp" -> ROpt("Equal")
      [] o = "cmp" -> ROrd("Equal")
      [] o \in {"lt", "gt"} -> RBool(FALSE)
      [] o \in {"le", "ge"} -> RBool(TRUE)

\* What T's own ordering operation o gives for the values x and y.
FullOrder(o, x, y) ==
    CASE o = "partial_cmp" -> ROpt(ValPartialCmp(x, y))
      [] o = "cmp" -> ROrd(ValCmp(x, y))
      [] o = "lt" -> RBool(ValLt(x, y))
      [] o = "le" -> RBool(ValLe(x, y))
      [] o = "gt" -> RBool(ValGt(x, y))
      [] o = "ge" -> RBool(ValGe(x, y))

\* C16: for two handles to the same slot partial_cmp is Some(Equal), cmp is
\* Equal, lt and gt are false, le and ge are true, and no view is acquired;
\* for handles to distinct slots (no write view outstanding on either) each
\* of the six is T's own operation on the two values.
C16_OrderingShortCircuit ==
    \A st \in builds :
        /\ last.op \in OrderingOps /\ SameSlot =>
              last.res[st] = NoDifference(last.op) /\ last.acq[st] = 0
        /\ /\ last.op \in OrderingOps
           /\ ~SameSlot
           /\ WritesOn(handle[last.a]) = 0
           /\ WritesOn(handle[last.b]) = 0
           => last.res[st] = FullOrder(last.op, val[st][handle[last.a]],
                                       val[st][handle[last.b]])

CompareOps == {"eq", "ne"} \cup OrderingOps

\* What the comparison o gives for a thing compared with itself.
SameSlotResult(o) ==
    CASE o = "eq" -> RBool(TRUE)
      [] o = "ne" -> RBool(FALSE)
      [] OTHER -> NoDifference(o)

Rendered(o, x) ==
    CASE o = "hash" -> RHash(x)
      [] o = "fmt_Display" -> RDisplay(x)
      [] o = "fmt_Debug" -> RDebug(x)

\* C18: in the checked build hash, Display and Debug of a handle go through
\* one read view on its slot: each panics, having acquired nothing, when a
\* write view on the slot is outstanding (the caller's own included), and
\* otherwise acquires one view and gives T's result for the slot's value.
C18_HashFmtNeedReadView ==
    Checked /\ last.op \in {"hash", "fmt_Display", "fmt_Debug"} =>
        LET s == handle[last.a]
        IN  IF WritesOn(s) > 0
            THEN last.res["checked"] = RPanic /\ last.acq["checked"] = 0
            ELSE /\ last.res["checked"] = Rendered(last.op, val["checked"][s])
                 /\ last.acq["checked"] = 1

\* hash of a handle panicked while the write view taken through that same
\* handle was outstanding.
C18_Witness ==
    /\ Checked
    /\ last.op = "hash"
    /\ Panicked("checked")
    /\ wr[last.a] = 1

\* C19: in the checked build a forwarded operation that returns leaves every
\* slot's aliasing state and the outstanding views as they were before the
\* call: the views it acquired are released, no read count is higher than
\* before, and a slot without views is Unborrowed, so that a borrow_mut on it
\* is granted.
C19_ForwardedLeavesNoView ==
    [][/\ Checked
       /\ last'.op \in ForwardedOps
       /\ last'.res["checked"] # RPanic
       => /\ flag' = flag
          /\ rd' = rd /\ wr' = wr
          /\ \A s \in Slots :
                alive[s] /\ ViewsOnSlot(s) = 0 =>
                    flag'[s] = 0 /\ checked_borrow_mut(flag'[s]).ok]_vars

\* A comparison of two distinct slots took its two read views, one of them
\* beside a read view of the caller, and returned: the count is 1 again.
C19_Witness ==
    /\ Checked
    /\ last.op \in ForwardedOps
    /\ last.acq["checked"] = 2
    /\ ~SameSlot
    /\ rd[last.a] = 1
    /\ flag[handle[last.a]] = 1
    /\ flag[handle[last.b]] = 0

====
